---- MODULE Spec2Model ----
(***************************************************************************)
(* A model of lua_interpreter.cxx: the interpreter state owner             *)
(* (lua_interpreter / lua_interpreter::impl) and the scoped table handle   *)
(* (table_handle / table_handle::impl) over the operand stack of one       *)
(* lua_State.  The Lua C API primitives the code calls are modelled by     *)
(* their documented stack effect.                                          *)
(***************************************************************************)
EXTENDS Integers, Sequences, FiniteSets, TLC

\* ------------------------------------------------------------------ bounds
\* operand stack depth up to which a further table is opened; it bounds the
\* table_handle::impl objects alive at the same time as well, each of which
\* was constructed on a slot of its own
MaxDepth == 3

\* the table_handle::impl objects alive, numbered in order of construction
ImplIds == 1..MaxDepth

\* ------------------------------------------------------------- Lua values
\* t: the lua_type name; sub: "int"/"float" for numbers; n: the integer, the
\* float in halves (5 is 2.5), the boolean as 0/1, or the table id; s: the
\* characters of a string.
LuaVal(t, sub, n, s) == [t |-> t, sub |-> sub, n |-> n, s |-> s]
Nil == LuaVal("nil", "", 0, "")
BoolV(b) == LuaVal("boolean", "", IF b THEN 1 ELSE 0, "")
IntV(n) == LuaVal("number", "int", n, "")
FltV(h) == LuaVal("number", "float", h, "")
StrV(s) == LuaVal("string", "", 0, s)
TblV(i) == LuaVal("table", "", i, "")

\* the host's native values: what get_var_t<Type> carries
Native(k, n, s) == [k |-> k, n |-> n, s |-> s]
NoValue == Native("none", 0, "")

\* l_str2int / l_str2d on the strings of the model: the number a string
\* converts to, Nil when it does not look like a number
StrToNumber(s) ==
    CASE s = "10" -> IntV(10)
      [] s = "2.5" -> FltV(5)
      [] OTHER -> Nil

\* lua_Integer and lua_Number formatting (LUA_INTEGER_FMT, LUAI_NUMFFORMAT
\* with the ".0" suffix of floats that look like integers)
NumberToStr(v) ==
    IF v.sub = "int"
    THEN CASE v.n = 5 -> "5" [] v.n = 10 -> "10" [] v.n = 42 -> "42"
           [] v.n = 1 -> "1" [] OTHER -> "?"
    ELSE CASE v.n = 5 -> "2.5" [] v.n = 4 -> "2.0" [] OTHER -> "?"

\* ---- the type checks the code hands to get_what_impl
lua_isinteger(v) == v.t = "number" /\ v.sub = "int"
lua_isnumber(v) ==
    \/ v.t = "number"
    \/ v.t = "string" /\ StrToNumber(v.s) # Nil
lua_isstring(v) == v.t = "string" \/ v.t = "number"
lua_isboolean(v) == v.t = "boolean"
lua_istable(v) == v.t = "table"

\* ---- the conversions the code hands to get_what_impl
lua_tointegerx(v) == Native("INT", v.n, "")
lua_tonumberx(v) ==
    LET num == IF v.t = "string" THEN StrToNumber(v.s) ELSE v
    IN  Native("NUM", IF num.sub = "int" THEN 2 * num.n ELSE num.n, "")
\* NULL for a value that is neither a string nor a number
lua_tolstring(v) ==
    CASE v.t = "number" -> Native("STR", 0, NumberToStr(v))
      [] v.t = "string" -> Native("STR", 0, v.s)
      [] OTHER -> Native("NULL", 0, "")
lua_toboolean(v) ==
    Native("BOOL", IF v.t = "nil" \/ (v.t = "boolean" /\ v.n = 0) THEN 0 ELSE 1, "")

\* --------------------------------------------------- the script's objects
\* The tables the scripts of the model have built: string-keyed fields,
\* integer-keyed elements, and the value the length operator yields (a
\* table with a __len metamethod may yield any value).
FieldKeys == {"a", "sub"}
IndexKeys == {1}
TableIds == {1, 2}

Heap(id) ==
    IF id = 1
    THEN [field |-> [k \in FieldKeys |-> IF k = "a" THEN IntV(5) ELSE TblV(2)],
          elem |-> [i \in IndexKeys |-> TblV(2)],
          len |-> IntV(1)]
    ELSE [field |-> [k \in FieldKeys |-> IF k = "a" THEN StrV("hi") ELSE TblV(1)],
          elem |-> [i \in IndexKeys |-> StrV("10")],
          len |-> StrV("hi")]

\* global names: t is a table, b, i, f, w, s and d hold a boolean, an
\* integer, the floats 2.5 and 2.0, a string and a string that looks like a
\* number; n is absent
GlobalNames == {"t", "n", "b", "i", "f", "w", "s", "d"}
\* a chunk: does it compile, does it then fail when it runs, and is the
\* error object it raises a string (error("x")) or another value (error({}))
Chunks == [loads : BOOLEAN, fails : BOOLEAN, errstr : BOOLEAN]
\* a std::string constructed from a null pointer: std::logic_error leaving
\* a noexcept function (std::terminate) or a read through the null pointer
Crashes == {"terminate", "segfault"}

Kinds == {"INT", "NUM", "STR", "BOOL", "LTYPE"}
\* keytype_t: a name, an integer index, or the function of a computed access
KeyN(name) == [name |-> name, idx |-> 0]
KeyI(i) == [name |-> "", idx |-> i]
KeyF == [name |-> "function()", idx |-> 0]

VARIABLES
    stack,       \* the operand stack of L: slots [val, by], by = the live
                 \* table_handle::impl whose construction adopted the slot (0: none)
    closeCount,  \* how many times lua_close(L) has run
    owner,       \* a lua_interpreter value holds the lua_interpreter::impl
    impls,       \* the table_handle::impl objects
    last         \* the last public operation and its outcome

vars == <<stack, closeCount, owner, impls, last>>

\* the global namespace
Global(name) ==
    CASE name = "t" -> TblV(1)
      [] name = "b" -> BoolV(TRUE)
      [] name = "i" -> IntV(42)
      [] name = "f" -> FltV(5)
      [] name = "w" -> FltV(4)
      [] name = "s" -> StrV("hi")
      [] name = "d" -> StrV("10")
      [] OTHER -> Nil

\* No object: held is "a table_handle value points to it" (table_handle is
\* move-only, so at most one does), tbl the table it was constructed on.
DeadImpl ==
    [open |-> FALSE, held |-> FALSE, pstate |-> FALSE, parent |-> 0,
     stack_index |-> 0, tbl |-> 0]

\* ------------------------------------------------------ stack primitives
Slot(v) == [val |-> v, by |-> 0]
lua_pop(st, n) == SubSeq(st, 1, Len(st) - n)
lua_gettop(st) == Len(st)
lua_remove(st, idx) == SubSeq(st, 1, idx - 1) \o SubSeq(st, idx + 1, Len(st))
\* an access that reads the top of the stack whatever the index
ValueAt_Top(st, idx) == IF Len(st) > 0 THEN st[Len(st)].val ELSE Nil

\* the value at an index; a non-valid index reads as nil
ValueAt(st, idx) == IF idx \in 1..Len(st) THEN st[idx].val ELSE Nil

\* a depth query that always answers 1
get_top_idx_One(st) == 1
get_top_idx(st) == lua_gettop(st)
remove_table(st, idx) == lua_remove(st, idx)

\* ------------------------------------------------- lua_interpreter::impl
\* a guard that never throws
protect_indexing_Off(st, idx) == TRUE

\* protect_indexing: TRUE when it returns, FALSE when it throws
protect_indexing(st, idx) == get_top_idx(st) >= idx

\* the value lua_getglobal / lua_getfield / lua_geti / lua_len pushes; the
\* indexed value is a table whenever the guard of protect_indexing passed
\* on a stack that holds only adopted tables
PushedValue(st, where, key, tidx) ==
    IF where = "GLOBAL" THEN Global(key.name)
    ELSE LET tv == ValueAt(st, tidx)
         IN  IF tv.t # "table" THEN Nil
             ELSE CASE where = "TABLE" -> Heap(tv.n).field[key.name]
                    [] where = "TABLE_INDEX" -> Heap(tv.n).elem[key.idx]
                    [] OTHER -> Heap(tv.n).len

\* get_by_key<VarWhere>: pop 0, push 1, or throws before pushing
get_by_key(st, where, key, tidx) ==
    IF where # "GLOBAL" /\ ~protect_indexing(st, tidx)
    THEN [err |-> "CorruptedStack", stack |-> st]
    ELSE [err |-> "none",
          stack |-> Append(st, Slot(PushedValue(st, where, key, tidx)))]

\* checks that accept the requested type only, with no coercion
CheckFunc_Exact(kind, v) ==
    CASE kind = "INT" -> lua_isinteger(v)
      [] kind = "NUM" -> v.t = "number" /\ v.sub = "float"
      [] kind = "STR" -> v.t = "string"
      [] OTHER -> lua_isboolean(v)

\* checks that let an absent value through
CheckFunc_NilOk(kind, v) ==
    \/ v.t = "nil"
    \/ CASE kind = "INT" -> lua_isinteger(v)
         [] kind = "NUM" -> lua_isnumber(v)
         [] kind = "STR" -> lua_isstring(v)
         [] OTHER -> lua_isboolean(v)

\* the check and the conversion each get_what<.., Type> passes down
CheckFunc(kind, v) ==
    CASE kind = "INT" -> lua_isinteger(v)
      [] kind = "NUM" -> lua_isnumber(v)
      [] kind = "STR" -> lua_isstring(v)
      [] OTHER -> lua_isboolean(v)

CvrtFunc(kind, v) ==
    CASE kind = "INT" -> lua_tointegerx(v)
      [] kind = "NUM" -> lua_tonumberx(v)
      [] kind = "STR" -> lua_tolstring(v)
      [] OTHER -> lua_toboolean(v)

\* a lookup that leaves the converted value on the stack
get_what_impl_NoPop(st, where, key, tidx, kind) ==
    LET g == get_by_key(st, where, key, tidx)
        top == g.stack[Len(g.stack)].val
    IN  IF g.err # "none"
        THEN [err |-> g.err, stack |-> g.stack, ret |-> NoValue]
        ELSE IF ~CheckFunc(kind, top)
        THEN [err |-> "TypeMismatch", stack |-> lua_pop(g.stack, 1), ret |-> NoValue]
        ELSE [err |-> "none", stack |-> g.stack, ret |-> CvrtFunc(kind, top)]

\* get_what_impl: pop 0, push 0
get_what_impl(st, where, key, tidx, kind) ==
    LET g == get_by_key(st, where, key, tidx)
        top == g.stack[Len(g.stack)].val
    IN  IF g.err # "none"
        THEN [err |-> g.err, stack |-> g.stack, ret |-> NoValue]
        ELSE IF ~CheckFunc(kind, top)
        THEN [err |-> "TypeMismatch", stack |-> lua_pop(g.stack, 1), ret |-> NoValue]
        ELSE [err |-> "none", stack |-> lua_pop(g.stack, 1), ret |-> CvrtFunc(kind, top)]

\* a probe that never refines a number to the integer sub-kind
get_type_impl_NoSubtype(st, where, key, tidx) ==
    LET g == get_by_key(st, where, key, tidx)
        top == g.stack[Len(g.stack)].val
        res == CASE top.t = "number" -> "NUM"
                 [] top.t = "string" -> "STR"
                 [] top.t = "boolean" -> "BOOL"
                 [] top.t = "table" -> "TABLE"
                 [] top.t = "nil" -> "NIL"
                 [] OTHER -> "OTHER"
    IN  IF g.err # "none"
        THEN [err |-> g.err, stack |-> g.stack, ret |-> NoValue]
        ELSE [err |-> "none", stack |-> lua_pop(g.stack, 1),
              ret |-> Native("LTYPE", 0, res)]

\* get_type_impl: the types enumerator of the pushed value
get_type_impl(st, where, key, tidx) ==
    LET g == get_by_key(st, where, key, tidx)
        top == g.stack[Len(g.stack)].val
        res == CASE top.t = "number" -> "NUM"
                 [] top.t = "string" -> "STR"
                 [] top.t = "boolean" -> "BOOL"
                 [] top.t = "table" -> "TABLE"
                 [] top.t = "nil" -> "NIL"
                 [] OTHER -> "OTHER"
        res2 == IF res = "NUM" /\ lua_isinteger(top) THEN "INT" ELSE res
    IN  IF g.err # "none"
        THEN [err |-> g.err, stack |-> g.stack, ret |-> NoValue]
        ELSE [err |-> "none", stack |-> lua_pop(g.stack, 1),
              ret |-> Native("LTYPE", 0, res2)]

\* get_what<VarWhere, Type>
get_what(st, where, key, tidx, kind) ==
    IF kind = "LTYPE"
    THEN get_type_impl(st, where, key, tidx)
    ELSE get_what_impl(st, where, key, tidx, kind)

\* a push_table that throws with the value found still pushed
push_table_NoPop(st, where, key, tidx) ==
    LET g == get_by_key(st, where, key, tidx)
    IN  IF g.err # "none" THEN g
        ELSE IF ~lua_istable(g.stack[Len(g.stack)].val)
        THEN [err |-> "TypeMismatch", stack |-> g.stack]
        ELSE g

\* push_table: pop 0, push 1, or throws with nothing left pushed
push_table(st, where, key, tidx) ==
    LET g == get_by_key(st, where, key, tidx)
    IN  IF g.err # "none" THEN g
        ELSE IF ~lua_istable(g.stack[Len(g.stack)].val)
        THEN [err |-> "TypeMismatch", stack |-> lua_pop(g.stack, 1)]
        ELSE g

\* table_len
table_len(st, tidx) == get_what_impl(st, "FUNC1", KeyF, tidx, "INT")

\* run_chunk: luaL_loadstring pushes the compiled function or the error
\* message; lua_pcall(L, 0, 0, 0) pops the function, runs it and pushes the
\* error object when it fails; the error branch reads that object with
\* lua_tostring, pops it and builds the std::string of the result from the
\* pointer read (ub: the pointer is null).
run_chunk(st, c) ==
    LET loaded == Append(st, Slot(IF c.loads THEN LuaVal("function", "", 0, "")
                                  ELSE StrV("syntax error")))
        raised == IF c.errstr THEN StrV("runtime error") ELSE TblV(1)
        called == IF c.fails
                  THEN Append(lua_pop(loaded, 1), Slot(raised))
                  ELSE lua_pop(loaded, 1)
        after == IF c.loads THEN called ELSE loaded
        error == ~c.loads \/ c.fails
        errmsg == lua_tolstring(after[Len(after)].val)
    IN  IF error
        THEN [ok |-> FALSE, msg |-> errmsg, stack |-> lua_pop(after, 1),
              ub |-> errmsg.k = "NULL"]
        ELSE [ok |-> TRUE, msg |-> Native("STR", 0, ""), stack |-> after,
              ub |-> FALSE]

\* ---------------------------------------------- ownership and destruction
\* a parent member that does not own: a plain pointer to the parent impl
RefsToImpl_WeakParent(im, id) == IF im[id].held THEN 1 ELSE 0

\* use_count of a table_handle::impl: the table_handle value pointing to it
\* and the child impls whose parent member points to it
RefsToImpl(im, id) ==
    (IF im[id].held THEN 1 ELSE 0)
      + Cardinality({c \in ImplIds : im[c].parent = id})

\* a pstate member that does not own: a plain pointer to the state
RefsToState_WeakState(ow, im) == IF ow THEN 1 ELSE 0

\* use_count of the lua_interpreter::impl: the lua_interpreter value and the
\* pstate member of every table_handle::impl
RefsToState(ow, im) ==
    (IF ow THEN 1 ELSE 0) + Cardinality({c \in ImplIds : im[c].pstate})

\* a is an ancestor of d in the family tree fam (impl -> its parent)
RECURSIVE IsAncestor(_, _, _)
IsAncestor(a, d, fam) ==
    /\ d # 0
    /\ fam[d] # 0
    /\ (fam[d] = a \/ IsAncestor(a, fam[d], fam))

\* One step of destruction: what it did, the impl destroyed, its recorded
\* index, the depth at that moment, whose slot left the stack, and whether
\* the slot of a descendant of that owner was still on the stack.
Event(what, id, idx, top, by, late) ==
    [e |-> what, id |-> id, idx |-> idx, top |-> top, by |-> by, late |-> late]

\* the slot adopted by `by` leaves and st is what stays
Late(by, st, fam) ==
    by # 0 /\ \E k \in 1..Len(st) : IsAncestor(by, st[k].by, fam)

\* lua_interpreter::impl::~impl, run when the last reference is released
ReleaseState(c, ow) ==
    IF RefsToState(ow, c.impls) > 0 THEN c
    ELSE [c EXCEPT !.closeCount = @ + 1,
                   !.stack = <<>>,
                   !.ev = Append(@, Event("close", 0, 0, Len(c.stack), 0, FALSE))]

\* the guard of the destructor written with > for >=
DtorRemoves_Strict(me, st) == me.pstate /\ get_top_idx(st) > me.stack_index

\* table_handle::impl::~impl: whether it removes its slot
DtorRemoves(me, st) == me.pstate /\ get_top_idx(st) >= me.stack_index

\* Releasing one reference to a table_handle::impl.  When it was the last
\* one the destructor body runs, then the members are destroyed in reverse
\* order of declaration: parent, then pstate.
RECURSIVE ReleaseImpl(_, _, _)
ReleaseImpl(c, ow, id) ==
    IF id = 0 \/ RefsToImpl(c.impls, id) > 0 THEN c
    ELSE LET me == c.impls[id]
             top == Len(c.stack)
             rm == DtorRemoves(me, c.stack)
             st1 == IF rm THEN remove_table(c.stack, me.stack_index) ELSE c.stack
             by == IF rm THEN c.stack[me.stack_index].by ELSE 0
             e == Event(IF rm THEN "remove" ELSE "skip", id, me.stack_index, top,
                        by, Late(by, st1, c.fam))
             c1 == [c EXCEPT !.stack = st1,
                             !.ev = Append(@, e),
                             !.impls[id].open = FALSE,
                             !.impls[id].parent = 0]
             c2 == ReleaseImpl(c1, ow, me.parent)
         IN  ReleaseState([c2 EXCEPT !.impls[id].pstate = FALSE], ow)

\* a table_handle value pointing to impl id goes away
ReleaseHandle(c, ow, id) ==
    IF id = 0 THEN c
    ELSE ReleaseImpl([c EXCEPT !.impls[id].held = FALSE], ow, id)

\* the objects before a destruction starts
Start(st, im) ==
    [stack |-> st, impls |-> im, ev |-> <<>>, closeCount |-> closeCount,
     fam |-> [i \in ImplIds |-> im[i].parent]]

\* After a destruction the storage of the destroyed impls is gone: the live
\* ones are numbered again in order of construction, and a slot whose impl
\* is gone is adopted by nobody.
Settle(c) ==
    LET live == {i \in ImplIds : c.impls[i].open}
        Rank(i) == IF i \in live THEN Cardinality({j \in live : j <= i}) ELSE 0
        Old(r) == CHOOSE i \in live : Rank(i) = r
        im == [r \in ImplIds |->
                 IF r <= Cardinality(live)
                 THEN [c.impls[Old(r)] EXCEPT !.parent = Rank(@)]
                 ELSE DeadImpl]
    IN  [c EXCEPT !.impls = im,
                  !.stack = [k \in 1..Len(c.stack) |->
                               [c.stack[k] EXCEPT !.by = Rank(@)]]]

\* a constructor that records the index below the top of the stack
NewImpl_Below(st, parent) ==
    [open |-> TRUE, held |-> TRUE, pstate |-> TRUE, parent |-> parent,
     stack_index |-> get_top_idx(st) - 1, tbl |-> st[Len(st)].val.n]

\* table_handle::impl::impl: adopts the slot on the top of the stack
NewImpl(st, parent) ==
    [open |-> TRUE, held |-> TRUE, pstate |-> TRUE, parent |-> parent,
     stack_index |-> get_top_idx(st), tbl |-> st[Len(st)].val.n]

\* what an operation hands back: which operation, the error thrown ("none":
\* it returned), the value returned, and the destructions it ran
Outcome(op, err, ret, ev) == [op |-> op, err |-> err, ret |-> ret, ev |-> ev]

Init ==
    /\ stack = <<>>
    /\ closeCount = 0
    /\ owner = TRUE
    /\ impls = [i \in ImplIds |-> DeadImpl]
    /\ last = Outcome("init", "none", NoValue, <<>>)
\* ------------------------------------------------------------- operations
\* the impls a table_handle value of the caller points to
Held == {h \in ImplIds : impls[h].held}
Live == {h \in ImplIds : impls[h].open}
CanOpen == Len(stack) < MaxDepth
\* the process has not been terminated
Running == last.err \notin Crashes

\* lua_interpreter::run_chunk
RunChunk(c) ==
    /\ Running
    /\ owner
    /\ LET r == run_chunk(stack, c)
       IN  /\ stack' = r.stack
           /\ IF r.ub
              THEN \E how \in Crashes :
                     last' = Outcome("run_chunk", how, NoValue, <<>>)
              ELSE last' = Outcome("run_chunk", IF r.ok THEN "none" ELSE "chunk",
                                   r.msg, <<>>)
    /\ UNCHANGED <<closeCount, owner, impls>>

\* a scalar lookup leaves everything but the stack alone
Scalar(op, r) ==
    /\ stack' = r.stack
    /\ last' = Outcome(op, r.err, r.ret, <<>>)
    /\ UNCHANGED <<closeCount, owner, impls>>

\* lua_interpreter::get_global<Type>
GetGlobal(name, kind) ==
    /\ Running
    /\ owner
    /\ Scalar("get_global", get_what(stack, "GLOBAL", KeyN(name), 0, kind))

\* table_handle::get_field<Type>
GetField(h, name, kind) ==
    /\ Running
    /\ h \in Held
    /\ Scalar("get_field",
              get_what(stack, "TABLE", KeyN(name), impls[h].stack_index, kind))

\* table_handle::get_index<Type>
GetIndex(h, i, kind) ==
    /\ Running
    /\ h \in Held
    /\ Scalar("get_index",
              get_what(stack, "TABLE_INDEX", KeyI(i), impls[h].stack_index, kind))

\* table_handle::len
TableLen(h) ==
    /\ Running
    /\ h \in Held
    /\ Scalar("len", table_len(stack, impls[h].stack_index))

\* The tail of the three table lookups: push_table threw, or the
\* table_handle is constructed on the pushed slot and handed to the caller,
\* who keeps it in a new variable (into = 0) or move-assigns it to the
\* variable holding impl `into`, whose reference is released after that.
Open(op, r, parent, into) ==
    IF r.err # "none"
    THEN /\ stack' = r.stack
         /\ last' = Outcome(op, r.err, NoValue, <<>>)
         /\ UNCHANGED <<closeCount, owner, impls>>
    ELSE LET id == Cardinality(Live) + 1
             im1 == [impls EXCEPT ![id] = NewImpl(r.stack, parent)]
             st1 == [r.stack EXCEPT ![Len(r.stack)].by = id]
             c == Settle(ReleaseHandle(Start(st1, im1), owner, into))
         IN  /\ stack' = c.stack
             /\ impls' = c.impls
             /\ closeCount' = c.closeCount
             /\ last' = Outcome(op, "none", NoValue, c.ev)
             /\ UNCHANGED owner

\* lua_interpreter::get_global<types::TABLE>
GetGlobalTable(name, into) ==
    /\ Running
    /\ owner
    /\ CanOpen
    /\ into \in Held \cup {0}
    /\ Open("open_global", push_table(stack, "GLOBAL", KeyN(name), 0), 0, into)

\* table_handle::get_field<types::TABLE>
GetFieldTable(h, name, into) ==
    /\ Running
    /\ h \in Held
    /\ CanOpen
    /\ into \in Held \cup {0}
    /\ Open("open_field",
            push_table(stack, "TABLE", KeyN(name), impls[h].stack_index), h, into)

\* table_handle::get_index<types::TABLE>
GetIndexTable(h, i, into) ==
    /\ Running
    /\ h \in Held
    /\ CanOpen
    /\ into \in Held \cup {0}
    /\ Open("open_index",
            push_table(stack, "TABLE_INDEX", KeyI(i), impls[h].stack_index), h, into)

\* a destruction and its record
Destroyed(op, c, ow) ==
    /\ stack' = c.stack
    /\ impls' = c.impls
    /\ closeCount' = c.closeCount
    /\ owner' = ow
    /\ last' = Outcome(op, "none", NoValue, c.ev)

\* table_handle::~table_handle
DropHandle(h) ==
    /\ Running
    /\ h \in Held
    /\ Destroyed("drop", Settle(ReleaseHandle(Start(stack, impls), owner, h)), owner)

\* table_handle::table_handle(table_handle &&) and operator=(table_handle &&):
\* the value pointing to impl a moves to a new variable (b = 0) or onto the
\* variable pointing to impl b, whose reference is released; the moved-from
\* variable is left null
MoveHandle(a, b) ==
    /\ Running
    /\ a \in Held
    /\ b \in (Held \ {a}) \cup {0}
    /\ Destroyed("move", Settle(ReleaseHandle(Start(stack, impls), owner, b)), owner)

\* lua_interpreter::~lua_interpreter
DropOwner ==
    /\ Running
    /\ owner
    /\ Destroyed("drop_owner", Settle(ReleaseState(Start(stack, impls), FALSE)), FALSE)

\* lua_interpreter::lua_interpreter(lua_interpreter &&) and operator=: the
\* pimpl moves to another lua_interpreter value
MoveOwner ==
    /\ Running
    /\ owner
    /\ last' = Outcome("move_owner", "none", NoValue, <<>>)
    /\ UNCHANGED <<stack, closeCount, owner, impls>>

Next ==
    \/ \E c \in Chunks : RunChunk(c)
    \/ \E n \in GlobalNames, k \in Kinds : GetGlobal(n, k)
    \/ \E n \in GlobalNames, w \in ImplIds \cup {0} : GetGlobalTable(n, w)
    \/ \E h \in ImplIds, n \in FieldKeys, k \in Kinds : GetField(h, n, k)
    \/ \E h \in ImplIds, i \in IndexKeys, k \in Kinds : GetIndex(h, i, k)
    \/ \E h \in ImplIds : TableLen(h)
    \/ \E h \in ImplIds, n \in FieldKeys, w \in ImplIds \cup {0} : GetFieldTable(h, n, w)
    \/ \E h \in ImplIds, i \in IndexKeys, w \in ImplIds \cup {0} : GetIndexTable(h, i, w)
    \/ \E h \in ImplIds : DropHandle(h)
    \/ \E a \in ImplIds, b \in ImplIds \cup {0} : MoveHandle(a, b)
    \/ DropOwner
    \/ MoveOwner

Spec == Init /\ [][Next]_vars

\* ------------------------------------------------- the supported usage
\* The caller keeps the open handles a single chain of ancestors: a table is
\* opened from the global namespace only while no handle is open, and from
\* a handle only while that handle has no open child.
HasChild(h) == \E c \in Live : impls[c].parent = h
ChainUse(parent) == IF parent = 0 THEN Live = {} ELSE ~HasChild(parent)

ChainGetGlobalTable(name, into) == ChainUse(0) /\ GetGlobalTable(name, into)
ChainGetFieldTable(h, name, into) == ChainUse(h) /\ GetFieldTable(h, name, into)
ChainGetIndexTable(h, i, into) == ChainUse(h) /\ GetIndexTable(h, i, into)

NextChain ==
    \/ \E c \in Chunks : RunChunk(c)
    \/ \E n \in GlobalNames, k \in Kinds : GetGlobal(n, k)
    \/ \E n \in GlobalNames, w \in ImplIds \cup {0} : ChainGetGlobalTable(n, w)
    \/ \E h \in ImplIds, n \in FieldKeys, k \in Kinds : GetField(h, n, k)
    \/ \E h \in ImplIds, i \in IndexKeys, k \in Kinds : GetIndex(h, i, k)
    \/ \E h \in ImplIds : TableLen(h)
    \/ \E h \in ImplIds, n \in FieldKeys, w \in ImplIds \cup {0} :
          ChainGetFieldTable(h, n, w)
    \/ \E h \in ImplIds, i \in IndexKeys, w \in ImplIds \cup {0} :
          ChainGetIndexTable(h, i, w)
    \/ \E h \in ImplIds : DropHandle(h)
    \/ \E a \in ImplIds, b \in ImplIds \cup {0} : MoveHandle(a, b)
    \/ DropOwner
    \/ MoveOwner

SpecChain == Init /\ [][NextChain]_vars
\* ------------------------------------------------------------ properties
Removes(ev) == Cardinality({k \in DOMAIN ev : ev[k].e = "remove"})
Destructions(ev) == {k \in DOMAIN ev : ev[k].e # "close"}
Depth == Len(stack)
\* the slot at h's recorded index is the one h was constructed on
OwnSlot(h) ==
    /\ impls[h].stack_index \in 1..Len(stack)
    /\ stack[impls[h].stack_index].by = h

\* some table lookup of the step returned a handle kept in a new variable
OpenedNew ==
    /\ last'.err = "none"
    /\ \/ \E n \in GlobalNames : GetGlobalTable(n, 0)
       \/ \E h \in ImplIds, n \in FieldKeys : GetFieldTable(h, n, 0)
       \/ \E h \in ImplIds, i \in IndexKeys : GetIndexTable(h, i, 0)

\* C1 as stated: opening a table handle raises the stack depth by exactly 1,
\* and destroying that handle lowers it by exactly 1, back to the depth the
\* stack had before the handle was opened.
C1_OpenCloseAsStated ==
    [][/\ OpenedNew => Len(stack') = Depth + 1
       /\ \A h \in ImplIds :
            DropHandle(h) /\ closeCount' = 0 =>
              /\ Len(stack') = Depth - 1
              /\ Len(stack') = impls[h].stack_index - 1]_vars

\* C1 amended: in the supported usage, opening a table handle raises the
\* depth by exactly 1.  Destroying a handle value removes nothing while an
\* open child handle still refers to the handle; otherwise it releases the
\* handle and with it every ancestor no longer referred to, and each
\* release lowers the depth by exactly 1, back to the depth the stack had
\* before the released handle was opened.
C1_OpenClose ==
    [][/\ OpenedNew => Len(stack') = Depth + 1
       /\ \A h \in ImplIds :
            DropHandle(h) =>
              /\ HasChild(h) => last'.ev = <<>> /\ stack' = stack
              /\ ~HasChild(h) => last'.ev # <<>> /\ last'.ev[1].id = h
              /\ \A k \in Destructions(last'.ev) :
                   /\ last'.ev[k].e = "remove"
                   /\ last'.ev[k].top - 1 = last'.ev[k].idx - 1
              /\ closeCount' = 0 =>
                   Len(stack') = Depth - Cardinality(Destructions(last'.ev))]_vars

\* a child handle opened above its parent was destroyed and took exactly
\* its own slot, leaving the parent's
C1_Witness ==
    /\ last.op = "drop"
    /\ Len(last.ev) = 1
    /\ last.ev[1].e = "remove"
    /\ last.ev[1].idx = 2
    /\ Depth = 1

\* C2: in the supported usage (the open handles form one chain) the slots
\* leave the stack in strict reverse order of opening: every destruction
\* removes the slot of the impl destroyed, that slot is the top of the
\* stack, and no slot of a descendant is left on the stack at that moment,
\* whatever handle values the caller drops, moves or move-assigns.
C2_ReverseOrder ==
    \A k \in Destructions(last.ev) :
      /\ last.ev[k].e = "remove"
      /\ last.ev[k].by = last.ev[k].id
      /\ last.ev[k].idx = last.ev[k].top
      /\ ~last.ev[k].late
      /\ k > 1 => last.ev[k].idx = last.ev[k - 1].idx - 1

\* a grandchild, its parent and the root released by one drop or move
C2_Witness ==
    /\ last.op \in {"drop", "move"}
    /\ Removes(last.ev) = 3

\* C3 as stated: when the caller has destroyed a handle and the table of a
\* surviving handle no longer sits at its recorded index, the next
\* get-field / get-index / length / open-child operation on that handle
\* fails with CorruptedStackError (so none succeeds on another table).
C3_SiblingMisuseReported ==
    [][\A h \in ImplIds :
         ( /\ last.op = "drop"
           /\ ~OwnSlot(h)
           /\ \/ \E n \in FieldKeys, k \in Kinds : GetField(h, n, k)
              \/ \E i \in IndexKeys, k \in Kinds : GetIndex(h, i, k)
              \/ TableLen(h)
              \/ \E n \in FieldKeys, w \in ImplIds \cup {0} : GetFieldTable(h, n, w)
              \/ \E i \in IndexKeys, w \in ImplIds \cup {0} : GetIndexTable(h, i, w) )
         => last'.err = "CorruptedStack"]_vars

\* the slot of h's parent has left the stack while the slot of h is on it
ParentSlotGone(h) ==
    /\ impls[h].parent # 0
    /\ ~\E k \in 1..Len(stack) : stack[k].by = impls[h].parent
    /\ \E k \in 1..Len(stack) : stack[k].by = h

\* C4 as stated: when the slot of a parent has been closed before its
\* child's, the child's next get-field / get-index / length operation fails
\* with CorruptedStackError.
C4_ParentClosedDetected ==
    [][\A h \in ImplIds :
         ( /\ ParentSlotGone(h)
           /\ \/ \E n \in FieldKeys, k \in Kinds : GetField(h, n, k)
              \/ \E i \in IndexKeys, k \in Kinds : GetIndex(h, i, k)
              \/ TableLen(h) )
         => last'.err = "CorruptedStack"]_vars

\* C5: the virtual machine is closed exactly once, only after the owner and
\* every table handle are gone, and no destruction of a handle touches the
\* stack after the close.
C5_ClosedOnceAfterAll ==
    /\ closeCount <= 1
    /\ closeCount = 1 <=> (~owner /\ Live = {})
    /\ \A k \in DOMAIN last.ev : last.ev[k].e = "close" => k = Len(last.ev)

\* a handle that outlived the owner value took its slot, then the close ran
C5_Witness ==
    /\ closeCount = 1
    /\ last.op \in {"drop", "move"}
    /\ Len(last.ev) >= 2
    /\ last.ev[1].e = "remove"
    /\ last.ev[Len(last.ev)].e = "close"

ScalarKinds == {"INT", "NUM", "STR", "BOOL"}

\* the runtime type of a value as the host tells the types apart
RuntimeType(v) ==
    CASE v.t = "number" -> (IF v.sub = "int" THEN "integer" ELSE "float")
      [] v.t = "string" -> (IF StrToNumber(v.s) # Nil THEN "numstring" ELSE "string")
      [] OTHER -> v.t

\* the value is of the requested kind
OfKind(v, kind) ==
    CASE kind = "INT" -> RuntimeType(v) = "integer"
      [] kind = "NUM" -> RuntimeType(v) = "float"
      [] kind = "STR" -> RuntimeType(v) \in {"string", "numstring"}
      [] OTHER -> RuntimeType(v) = "boolean"

\* the native value of a value of the requested kind
ValueOf(v, kind) ==
    CASE kind = "INT" -> Native("INT", v.n, "")
      [] kind = "NUM" -> Native("NUM", v.n, "")
      [] kind = "STR" -> Native("STR", 0, v.s)
      [] OTHER -> Native("BOOL", v.n, "")

C7_MismatchFailsAsStated ==
    [][\A n \in GlobalNames, k \in ScalarKinds :
         (last'.op = "get_global" /\ ~OfKind(Global(n), k) /\ GetGlobal(n, k)) =>
           /\ last'.err = "TypeMismatch"
           /\ Len(stack') = Depth]_vars

\* the pairs of runtime type and requested kind the runtime coerces
Coerced(v, kind) ==
    \/ kind = "NUM" /\ RuntimeType(v) \in {"integer", "numstring"}
    \/ kind = "STR" /\ RuntimeType(v) \in {"integer", "float"}

\* what the coerced globals of the model read as: 42 as the number 42.0 and
\* the string "42", 2.5 as the string "2.5", "10" as the number 10.0
CoercedValue(n, kind) ==
    CASE n = "i" /\ kind = "NUM" -> Native("NUM", 84, "")
      [] n = "i" /\ kind = "STR" -> Native("STR", 0, "42")
      [] n = "f" /\ kind = "STR" -> Native("STR", 0, "2.5")
      [] n = "w" /\ kind = "STR" -> Native("STR", 0, "2.0")
      [] n = "d" /\ kind = "NUM" -> Native("NUM", 20, "")
      [] OTHER -> NoValue

\* C7 amended: for a global whose runtime type differs from the requested
\* kind, get_global fails with TypeMismatchError, except that an integer
\* requested as number or as string, a float requested as string and a
\* string that looks like a number requested as number succeed with the
\* converted value; the stack depth is unchanged in every case.
C7_MismatchFails ==
    [][\A n \in GlobalNames, k \in ScalarKinds :
         (last'.op = "get_global" /\ ~OfKind(Global(n), k) /\ GetGlobal(n, k)) =>
           /\ Len(stack') = Depth
           /\ Coerced(Global(n), k) =>
                 last'.err = "none" /\ last'.ret = CoercedValue(n, k)
           /\ ~Coerced(Global(n), k) => last'.err = "TypeMismatch"]_vars

\* the numeric-looking string read as a number with a table handle open
C7_Witness ==
    /\ last.op = "get_global"
    /\ last.err = "none"
    /\ last.ret = Native("NUM", 20, "")
    /\ Depth >= 1

\* C8 as stated: executing a chunk leaves the operand stack depth unchanged
\* and every open handle's table at its recorded index; a chunk that fails
\* to compile or fails at run time yields (false, message).
C8_ChunkFrame ==
    [][\A c \in Chunks :
         RunChunk(c) =>
           /\ Len(stack') = Depth
           /\ \A h \in ImplIds : OwnSlot(h) => OwnSlot(h)'
           /\ (~c.loads \/ c.fails) =>
                 last'.err = "chunk" /\ last'.ret.k = "STR" /\ last'.ret.s # ""
           /\ (c.loads /\ ~c.fails) => last'.err = "none"]_vars

\* a handle operation that goes through protect_indexing
HandleOp(h) ==
    /\ h \in Held
    /\ \/ last'.op = "get_field" /\ \E n \in FieldKeys, k \in Kinds : GetField(h, n, k)
       \/ last'.op = "get_index" /\ \E i \in IndexKeys, k \in Kinds : GetIndex(h, i, k)
       \/ last'.op = "len" /\ TableLen(h)
       \/ /\ last'.op = "open_field"
          /\ \E n \in FieldKeys, w \in ImplIds \cup {0} : GetFieldTable(h, n, w)
       \/ /\ last'.op = "open_index"
          /\ \E i \in IndexKeys, w \in ImplIds \cup {0} : GetIndexTable(h, i, w)

\* C9: every get-field, get-index, open-child and length operation on a
\* handle fails with CorruptedStackError exactly when the stack depth is
\* below the handle's recorded index, and then pushes nothing and creates
\* no handle.
C9_GuardBeforePush ==
    [][\A h \in ImplIds :
         HandleOp(h) =>
           /\ Depth < impls[h].stack_index =>
                 /\ last'.err = "CorruptedStack"
                 /\ stack' = stack
                 /\ impls' = impls
           /\ Depth >= impls[h].stack_index => last'.err # "CorruptedStack"]_vars

\* a child was asked for on a handle whose index is above the stack
C9_Witness ==
    /\ last.op \in {"open_field", "open_index"}
    /\ last.err = "CorruptedStack"
    /\ \E h \in Held : Depth < impls[h].stack_index

\* the value a table lookup finds is not a table
NotATable(where, key, tidx) ==
    /\ where # "GLOBAL" => protect_indexing(stack, tidx)
    /\ ~lua_istable(PushedValue(stack, where, key, tidx))

\* C10: when get-global-as-table, get-field-as-table or get-index-as-table
\* finds a value that is not a table it fails with TypeMismatchError with
\* the pushed slot popped and no handle created: the stack and every open
\* handle are as before the call.
C10_NotTableRejected ==
    [][/\ \A n \in GlobalNames, w \in ImplIds \cup {0} :
            ( /\ last'.op = "open_global"
              /\ NotATable("GLOBAL", KeyN(n), 0)
              /\ GetGlobalTable(n, w) ) =>
              last'.err = "TypeMismatch" /\ stack' = stack /\ impls' = impls
       /\ \A h \in ImplIds, n \in FieldKeys, w \in ImplIds \cup {0} :
            ( /\ last'.op = "open_field"
              /\ h \in Held
              /\ NotATable("TABLE", KeyN(n), impls[h].stack_index)
              /\ GetFieldTable(h, n, w) ) =>
              last'.err = "TypeMismatch" /\ stack' = stack /\ impls' = impls
       /\ \A h \in ImplIds, i \in IndexKeys, w \in ImplIds \cup {0} :
            ( /\ last'.op = "open_index"
              /\ h \in Held
              /\ NotATable("TABLE_INDEX", KeyI(i), impls[h].stack_index)
              /\ GetIndexTable(h, i, w) ) =>
              last'.err = "TypeMismatch" /\ stack' = stack /\ impls' = impls]_vars

\* an element that is not a table was asked for as a table through a
\* handle that has a parent
C10_Witness ==
    /\ last.op = "open_index"
    /\ last.err = "TypeMismatch"
    /\ Depth = 2
    /\ \A h \in Live : OwnSlot(h)

\* a number without a fractional part: an integer, or a float such as 2.0
\* (floats are kept in halves)
IntegerValued(v) == v.t = "number" /\ (v.sub = "int" \/ v.n % 2 = 0)

\* the probe of a global or of a field of the handle's own table found v
\* and answered kind
Probed(v, kind) ==
    /\ last'.ret = Native("LTYPE", 0, kind)
    /\ \/ /\ last'.op = "get_global"
          /\ \E n \in GlobalNames : Global(n) = v /\ GetGlobal(n, "LTYPE")
       \/ /\ last'.op = "get_field"
          /\ \E h \in Held, n \in FieldKeys :
               /\ OwnSlot(h)
               /\ Heap(impls[h].tbl).field[n] = v
               /\ GetField(h, n, "LTYPE")

\* the numbers the scripts of the model hold
Numbers == {IntV(42), IntV(5), FltV(5), FltV(4)}

\* C11 as stated: the script-type probe answers integer for every number
\* without a fractional part, stored as an integer or as a float such as
\* 2.0, and number for every other number; the stack depth is unchanged.
C11_ProbeAsStated ==
    [][\A v \in Numbers, k \in {"INT", "NUM"} :
         Probed(v, k) =>
           /\ k = "INT" <=> IntegerValued(v)
           /\ Len(stack') = Depth]_vars

\* C11 amended: the script-type probe answers integer for every number
\* stored as an integer and number for every number stored as a float,
\* 2.0 included; the stack depth is unchanged.
C11_Probe ==
    [][\A v \in Numbers, k \in {"INT", "NUM", "STR", "BOOL", "TABLE", "NIL", "OTHER"} :
         Probed(v, k) =>
           /\ k = (IF v.sub = "int" THEN "INT" ELSE "NUM")
           /\ Len(stack') = Depth]_vars

\* a number was probed through a handle and found to be an integer
C11_Witness ==
    /\ last.op = "get_field"
    /\ last.ret = Native("LTYPE", 0, "INT")
    /\ Depth >= 1

\* C12 as stated: requesting the absent global fails with
\* TypeMismatchError for integer, number, string, boolean and script-type,
\* and leaves the stack depth unchanged.
C12_AbsentAsStated ==
    [][\A k \in Kinds :
         (last'.op = "get_global" /\ GetGlobal("n", k)) =>
           /\ last'.err = "TypeMismatch"
           /\ Len(stack') = Depth]_vars

\* C12 amended: requesting the absent global fails with TypeMismatchError
\* for integer, number, string and boolean; the script-type probe succeeds
\* and answers nil; the stack depth is unchanged in every case.
C12_Absent ==
    [][\A k \in Kinds :
         (last'.op = "get_global" /\ GetGlobal("n", k)) =>
           /\ k \in ScalarKinds => last'.err = "TypeMismatch"
           /\ k = "LTYPE" =>
                 last'.err = "none" /\ last'.ret = Native("LTYPE", 0, "NIL")
           /\ Len(stack') = Depth]_vars

\* the absent global was probed while a table handle was open
C12_Witness ==
    /\ last.op = "get_global"
    /\ last.ret = Native("LTYPE", 0, "NIL")
    /\ Depth >= 1

\* C13: while the open handles form a single chain, the open handles (the
\* handles whose slot is resident: kept by a handle value or by an open
\* child) are exactly the stack slots: the depth is their number, and the
\* i-th oldest has recorded index i and its own table at that index.
C13_ChainMatchesStack ==
    /\ Depth = Cardinality(Live)
    /\ \A h \in Live :
         /\ impls[h].stack_index = h
         /\ OwnSlot(h)
         /\ stack[h].val = TblV(impls[h].tbl)
         /\ impls[h].held \/ HasChild(h)
         /\ impls[h].parent = h - 1

\* a chain of three with the handle values of its ancestors dropped
C13_Witness ==
    /\ Depth = 3
    /\ Held = {3}
    /\ last.op = "drop"

\* C14: in every reachable state the recorded stack index of every open
\* child handle is strictly greater than the recorded stack index of its
\* parent handle, which is still open.
C14_ChildAboveParent ==
    \A h \in Live :
      impls[h].parent # 0 =>
        /\ impls[h].parent \in Live
        /\ impls[h].stack_index > impls[impls[h].parent].stack_index

\* a child open on a parent whose table has left its recorded index
C14_Witness ==
    \E h \in Live :
      /\ impls[h].parent # 0
      /\ ~OwnSlot(impls[h].parent)
      /\ impls[h].stack_index = impls[impls[h].parent].stack_index + 1

\* C15 as stated: every release of a handle removes the slot at the
\* handle's recorded index when the depth is at least that index, and is a
\* fatal condition, never a silent no-op, when the depth is smaller.
C15_ReleaseAsStated ==
    \A k \in Destructions(last.ev) :
      /\ last.ev[k].top >= last.ev[k].idx => last.ev[k].e = "remove"
      /\ last.ev[k].top < last.ev[k].idx => last.err \in Crashes

\* the stack that holds the table handle h was opened on and nothing else
OwnTable(h) == <<Slot(TblV(impls[h].tbl))>>

\* the step is a scalar lookup on h that ends as the lookup r does
LookupAs(r) ==
    /\ last'.err = r.err
    /\ last'.ret = r.ret
    /\ r.err \in {"none", "TypeMismatch"}
    /\ stack' = stack
    /\ impls' = impls

\* C16: with a chain of nested handles open, a scalar get-field, get-index
\* or length query on any handle of the chain, an ancestor with open
\* descendants included, answers what the handle's own table holds and
\* leaves the stack and every handle's recorded index unchanged, on success
\* and on TypeMismatchError.
C16_ReadsOwnTable ==
    [][\A h \in ImplIds :
         /\ \A n \in FieldKeys, k \in Kinds :
              (last'.op = "get_field" /\ GetField(h, n, k)) =>
                LookupAs(get_what(OwnTable(h), "TABLE", KeyN(n), 1, k))
         /\ \A i \in IndexKeys, k \in Kinds :
              (last'.op = "get_index" /\ GetIndex(h, i, k)) =>
                LookupAs(get_what(OwnTable(h), "TABLE_INDEX", KeyI(i), 1, k))
         /\ (last'.op = "len" /\ TableLen(h)) =>
                LookupAs(table_len(OwnTable(h), 1))]_vars

\* the root of a chain of two answered its own field
C16_Witness ==
    /\ Depth = 2
    /\ 1 \in Held
    /\ HasChild(1)
    /\ last.op = "get_field"
    /\ last.ret = Native("INT", 5, "")

\* C17 as stated: once every table handle of the interpreter has been
\* destroyed the operand stack is back at the depth it had before the
\* first handle was opened, whatever was opened, moved and destroyed.
C17_NoSlotLeaked ==
    (Live = {} /\ closeCount = 0) => Depth = 0

\* the handle opened last among the open ones
Newest == Cardinality(Live)

\* C18 as stated: a table lookup whose result is kept in a new variable or
\* move-assigned over a variable that holds an open handle yields a usable
\* handle: its recorded index designates its own table, so that its next
\* lookup passes the guard and reads that table.
C18_AssignedHandleUsable ==
    (last.op \in {"open_global", "open_field", "open_index"} /\ last.err = "none") =>
      /\ Newest \in Held
      /\ protect_indexing(stack, impls[Newest].stack_index)
      /\ OwnSlot(Newest)

\* C19 as stated: every slot removal of a release targets a valid stack
\* index (1 <= recorded index <= depth), and the release of a handle never
\* removes the slot of a different handle that is still open (the first
\* destruction of an operation finds every adopted slot's handle open).
C19_RemovesOwnSlot ==
    /\ \A k \in DOMAIN last.ev :
         last.ev[k].e = "remove" =>
           last.ev[k].idx >= 1 /\ last.ev[k].idx <= last.ev[k].top
    /\ (last.ev # <<>> /\ last.ev[1].e = "remove") =>
         last.ev[1].by \in {last.ev[1].id, 0}
====
